---- MODULE Spec2Model ----
(***************************************************************************)
(* Model of the debug-configuration handlers of the R-Debugger extension   *)
(* (src/src/extension.ts) and of the configuration types they produce      *)
(* (src/unnamed/part_000, the debugProtocolModifications module).          *)
(*                                                                         *)
(* A configuration is a record with one entry per property the handlers    *)
(* read or write.  A property value is an optional value: {} stands for a  *)
(* property that is undefined (absent), {v} for a property holding v.      *)
(* The state is the extension's objects after activate() plus the          *)
(* arguments, the mutated configuration object and the return value of the *)
(* most recent handler call.                                               *)
(***************************************************************************)
EXTENDS Integers, Sequences, FiniteSets, TLC

\* ------------------------------------------------------------------ bounds
\* ports drawn for customPort / port and for the negotiated terminal port
MaxPort == 1
\* longest commandLineArgs list
MaxArgs == 1
\* how many times a returned configuration is handed back to the resolver
MaxResolves == 1

\* ------------------------------------------------------- program constants
DefaultAttachPort == 18721

\* ------------------------------------------------------------ JS semantics
Undefined == {}

\* a || b on an optional string
OrString(a, b) == IF a = {} \/ a = {""} THEN b ELSE a

\* a || b on an optional number
OrNumber(a, b) == IF a = {} \/ a = {0} THEN b ELSE a

\* a ?? b
Nullish(a, b) == IF a = {} THEN b ELSE a

\* a && b where b is a boolean
AndBoolean(a, b) == IF a = {} \/ a = {FALSE} THEN a ELSE {b}

\* !a on an optional string
NotString(a) == a = {} \/ a = {""}

\* ------------------------------------------------------ configuration type
Fields ==
  { "type", "request", "name", "debugMode", "workingDirectory", "file",
    "mainFunction", "includePackageScopes", "loadPackages",
    "allowGlobalDebugging", "overwriteLoadAll", "overwriteHelp",
    "splitOverwrittenOutput", "supportsWriteToStdinEvent",
    "supportsShowingPromptRequest", "supportsStdoutReading",
    "useCustomSocket", "customPort", "customHost", "commandLineArgs",
    "port", "host" }

\* the object literal {} : every property undefined
EmptyConfig == [f \in Fields |-> Undefined]

DebugMode == {"function", "file", "workspace"}

\* ----------------------------------------------------------------- signals
\* const wd = (folder ? '${workspaceFolder}' : (docValid ? '${fileDirname}' : '.'))
WorkingDirectoryOf(folder, docValid) ==
  IF folder THEN "${workspaceFolder}"
  ELSE IF docValid THEN "${fileDirname}" ELSE "."

\* const hasDescription = folder && fs.existsSync(path.join(folder.uri.fsPath, 'DESCRIPTION'))
HasDescription(folder, descriptionExists) == folder /\ descriptionExists

\* ----------------------------------------------------- configuration catalog
\* InitialDebugConfigurationProvider.provideDebugConfigurations
InitialTemplates ==
  << [EmptyConfig EXCEPT !.type = {"R-Debugger"}, !.name = {"Launch R-Workspace"},
        !.request = {"launch"}, !.debugMode = {"workspace"},
        !.workingDirectory = {"${workspaceFolder}"}],
     [EmptyConfig EXCEPT !.type = {"R-Debugger"}, !.name = {"Debug R-File"},
        !.request = {"launch"}, !.debugMode = {"file"},
        !.workingDirectory = {"${workspaceFolder}"}, !.file = {"${file}"}],
     [EmptyConfig EXCEPT !.type = {"R-Debugger"}, !.name = {"Debug R-Function"},
        !.request = {"launch"}, !.debugMode = {"function"},
        !.workingDirectory = {"${workspaceFolder}"}, !.file = {"${file}"},
        !.mainFunction = {"main"}, !.allowGlobalDebugging = {FALSE}],
     [EmptyConfig EXCEPT !.type = {"R-Debugger"}, !.name = {"Debug R-Package"},
        !.request = {"launch"}, !.debugMode = {"workspace"},
        !.workingDirectory = {"${workspaceFolder}"},
        !.includePackageScopes = {TRUE}, !.loadPackages = {<<".">>}],
     [EmptyConfig EXCEPT !.type = {"R-Debugger"}, !.request = {"attach"},
        !.name = {"Attach to R process"}, !.splitOverwrittenOutput = {TRUE}] >>

WorkspaceTemplate(wd) ==
  [EmptyConfig EXCEPT !.type = {"R-Debugger"}, !.request = {"launch"},
     !.name = {"Launch R-Workspace"}, !.debugMode = {"workspace"},
     !.workingDirectory = {wd}, !.allowGlobalDebugging = {TRUE}]

FileTemplate(wd) ==
  [EmptyConfig EXCEPT !.type = {"R-Debugger"}, !.request = {"launch"},
     !.name = {"Debug R-File"}, !.debugMode = {"file"},
     !.workingDirectory = {wd}, !.file = {"${file}"},
     !.allowGlobalDebugging = {TRUE}]

FunctionTemplate(wd) ==
  [EmptyConfig EXCEPT !.type = {"R-Debugger"}, !.request = {"launch"},
     !.name = {"Debug R-Function"}, !.debugMode = {"function"},
     !.workingDirectory = {wd}, !.file = {"${file}"},
     !.mainFunction = {"main"}, !.allowGlobalDebugging = {FALSE}]

PackageTemplate(wd) ==
  [EmptyConfig EXCEPT !.type = {"R-Debugger"}, !.name = {"Debug R-Package"},
     !.request = {"launch"}, !.debugMode = {"workspace"},
     !.workingDirectory = {wd}, !.loadPackages = {<<".">>},
     !.includePackageScopes = {TRUE}, !.allowGlobalDebugging = {TRUE}]

AttachTemplate ==
  [EmptyConfig EXCEPT !.type = {"R-Debugger"}, !.request = {"attach"},
     !.name = {"Attach to R process"}, !.splitOverwrittenOutput = {TRUE}]

\* fault variant: the package template is pushed before the file templates
DynamicTemplatesPackageFirst(folder, docValid, descriptionExists) ==
  LET wd == WorkingDirectoryOf(folder, docValid)
      hasDescription == HasDescription(folder, descriptionExists)
  IN  << WorkspaceTemplate(wd) >>
      \o (IF hasDescription THEN << PackageTemplate(wd) >> ELSE << >>)
      \o (IF docValid THEN << FileTemplate(wd), FunctionTemplate(wd) >> ELSE << >>)
      \o << AttachTemplate >>

\* DynamicDebugConfigurationProvider.provideDebugConfigurations: the pushes
\* onto configs, in the order of the code
DynamicTemplates(folder, docValid, descriptionExists) ==
  LET wd == WorkingDirectoryOf(folder, docValid)
      hasDescription == HasDescription(folder, descriptionExists)
  IN  << WorkspaceTemplate(wd) >>
      \o (IF docValid THEN << FileTemplate(wd), FunctionTemplate(wd) >> ELSE << >>)
      \o (IF hasDescription THEN << PackageTemplate(wd) >> ELSE << >>)
      \o << AttachTemplate >>

\* ---------------------------------------------------- configuration resolver
NoError == "none"

\* if (!config.type && !config.request && !config.name)
LaunchedWithoutConfig(config) ==
  NotString(config.type) /\ NotString(config.request) /\ NotString(config.name)

\* fault variant: an open file is preferred to the package description
BootstrapFileFirst(config, hasDescription, docValid, wd) ==
  IF ~LaunchedWithoutConfig(config) THEN config
  ELSE IF docValid THEN
    [EmptyConfig EXCEPT !.type = {"R-Debugger"}, !.name = {"Launch R Debugger"},
       !.request = {"launch"}, !.debugMode = {"file"}, !.file = {"${file}"},
       !.workingDirectory = {wd}]
  ELSE IF hasDescription THEN
    [EmptyConfig EXCEPT !.type = {"R-Debugger"}, !.name = {"Debug R-Package"},
       !.request = {"launch"}, !.debugMode = {"workspace"},
       !.workingDirectory = {wd}, !.loadPackages = {<<".">>},
       !.includePackageScopes = {TRUE}, !.allowGlobalDebugging = {TRUE}]
  ELSE
    [EmptyConfig EXCEPT !.type = {"R-Debugger"}, !.name = {"Launch R Debugger"},
       !.request = {"launch"}, !.debugMode = {"workspace"},
       !.workingDirectory = {wd}]

\* the configuration assigned to config when the debugger was launched
\* without one; the object passed in is dropped
BootstrapConfig(config, hasDescription, docValid, wd) ==
  IF ~LaunchedWithoutConfig(config) THEN config
  ELSE IF hasDescription THEN
    [EmptyConfig EXCEPT !.type = {"R-Debugger"}, !.name = {"Debug R-Package"},
       !.request = {"launch"}, !.debugMode = {"workspace"},
       !.workingDirectory = {wd}, !.loadPackages = {<<".">>},
       !.includePackageScopes = {TRUE}, !.allowGlobalDebugging = {TRUE}]
  ELSE IF docValid THEN
    [EmptyConfig EXCEPT !.type = {"R-Debugger"}, !.name = {"Launch R Debugger"},
       !.request = {"launch"}, !.debugMode = {"file"}, !.file = {"${file}"},
       !.workingDirectory = {wd}]
  ELSE
    [EmptyConfig EXCEPT !.type = {"R-Debugger"}, !.name = {"Launch R Debugger"},
       !.request = {"launch"}, !.debugMode = {"workspace"},
       !.workingDirectory = {wd}]

\* fault variant: allowGlobalDebugging defaulted with || instead of ??
DefaultModeFalsy(config, docValid) ==
  [config EXCEPT
     !.debugMode = OrString(@, {IF docValid THEN "file" ELSE "workspace"}),
     !.allowGlobalDebugging = IF @ = {} \/ @ = {FALSE} THEN {TRUE} ELSE @]

\* config.debugMode = config.debugMode || (docValid ? "file" : "workspace")
\* config.allowGlobalDebugging = config.allowGlobalDebugging ?? true
DefaultMode(config, docValid) ==
  [config EXCEPT
     !.debugMode = OrString(@, {IF docValid THEN "file" ELSE "workspace"}),
     !.allowGlobalDebugging = Nullish(@, {TRUE})]

\* fault variant: overwriteHelp is not checked against the help viewer
LaunchCapabilitiesUngated(config, supportsHelpViewer) ==
  [config EXCEPT
     !.supportsStdoutReading = {TRUE},
     !.supportsWriteToStdinEvent = {TRUE},
     !.supportsShowingPromptRequest = {TRUE},
     !.overwriteHelp = Nullish(@, {TRUE})]

\* request === 'launch': capabilities that are always true, overwriteHelp
LaunchCapabilities(config, supportsHelpViewer) ==
  [config EXCEPT
     !.supportsStdoutReading = {TRUE},
     !.supportsWriteToStdinEvent = {TRUE},
     !.supportsShowingPromptRequest = {TRUE},
     !.overwriteHelp = AndBoolean(Nullish(@, {TRUE}), supportsHelpViewer)]

\* fault variant: useCustomSocket is forced instead of defaulted
AttachSocketInfoForced(config, customPort, customHost) ==
  [config EXCEPT
     !.customPort = Nullish(@, {customPort}),
     !.customHost = OrString(@, {customHost}),
     !.useCustomSocket = {TRUE},
     !.supportsWriteToStdinEvent = Nullish(@, {TRUE}),
     !.overwriteLoadAll = {FALSE}]

\* request === 'attach': communication info with TerminalHandler()
AttachSocketInfo(config, customPort, customHost) ==
  [config EXCEPT
     !.customPort = Nullish(@, {customPort}),
     !.customHost = OrString(@, {customHost}),
     !.useCustomSocket = Nullish(@, {TRUE}),
     !.supportsWriteToStdinEvent = Nullish(@, {TRUE}),
     !.overwriteLoadAll = {FALSE}]

\* fill custom capabilities/socket info
FillCapabilities(config, self) ==
  IF config.request = {"launch"} THEN
    LaunchCapabilities(config, self.supportsHelpViewer)
  ELSE IF config.request = {"attach"} THEN
    AttachSocketInfo(config, self.customPort, self.customHost)
  ELSE config

\* fault variant: an unknown debugMode is treated as "workspace"
MatchDebugModeLenient(config, wd) ==
  IF config.request = {"attach"} THEN
    [config |-> config, strictConfig |-> {config}, error |-> NoError]
  ELSE
    LET c == [config EXCEPT
                !.workingDirectory = OrString(@, {wd}),
                !.file = IF config.debugMode \in {{"function"}, {"file"}}
                         THEN OrString(@, {"${file}"}) ELSE @,
                !.mainFunction = IF config.debugMode = {"function"}
                                 THEN OrString(@, {"main"}) ELSE @]
    IN [config |-> c, strictConfig |-> {c}, error |-> NoError]

\* fault variant: an unknown request is rejected by the resolver itself
MatchDebugModeThrowing(config, wd) ==
  IF config.request \notin {{"launch"}, {"attach"}} THEN
    [config |-> config, strictConfig |-> {},
     error |-> "Invalid entry \"request\" in debug config."]
  ELSE
    LET c == [config EXCEPT
                !.workingDirectory =
                   IF config.request = {"launch"} /\ config.debugMode \in {{"function"}, {"file"}, {"workspace"}}
                   THEN OrString(@, {wd}) ELSE @,
                !.file = IF config.request = {"launch"} /\ config.debugMode \in {{"function"}, {"file"}}
                         THEN OrString(@, {"${file}"}) ELSE @,
                !.mainFunction = IF config.request = {"launch"} /\ config.debugMode = {"function"}
                                 THEN OrString(@, {"main"}) ELSE @]
    IN [config |-> c,
        strictConfig |-> IF config.request = {"attach"}
                            \/ config.debugMode \in {{"function"}, {"file"}, {"workspace"}}
                         THEN {c} ELSE {},
        error |-> NoError]

\* fault variant: the function branch assigns mainFunction instead of
\* backfilling it
MatchDebugModeOverwrite(config, wd) ==
  IF config.request = {"attach"} THEN
    [config |-> config, strictConfig |-> {config}, error |-> NoError]
  ELSE IF config.debugMode \in {{"function"}, {"file"}, {"workspace"}} THEN
    LET c == [config EXCEPT
                !.workingDirectory = OrString(@, {wd}),
                !.file = IF config.debugMode \in {{"function"}, {"file"}}
                         THEN OrString(@, {"${file}"}) ELSE @,
                !.mainFunction = IF config.debugMode = {"function"}
                                 THEN {"main"} ELSE @]
    IN [config |-> c, strictConfig |-> {c}, error |-> NoError]
  ELSE
    [config |-> config, strictConfig |-> {}, error |-> NoError]

\* make sure the config matches the requirements of one of the debug modes;
\* returns the mutated config object and the value of strictConfig
MatchDebugMode(config, wd) ==
  LET debugMode == config.debugMode IN
  IF config.request = {"attach"} THEN
    [config |-> config, strictConfig |-> {config}, error |-> NoError]
  ELSE IF debugMode = {"function"} THEN
    LET c == [config EXCEPT !.workingDirectory = OrString(@, {wd}),
                            !.file = OrString(@, {"${file}"}),
                            !.mainFunction = OrString(@, {"main"})]
    IN [config |-> c, strictConfig |-> {c}, error |-> NoError]
  ELSE IF debugMode = {"file"} THEN
    LET c == [config EXCEPT !.workingDirectory = OrString(@, {wd}),
                            !.file = OrString(@, {"${file}"})]
    IN [config |-> c, strictConfig |-> {c}, error |-> NoError]
  ELSE IF debugMode = {"workspace"} THEN
    LET c == [config EXCEPT !.workingDirectory = OrString(@, {wd})]
    IN [config |-> c, strictConfig |-> {c}, error |-> NoError]
  ELSE
    [config |-> config, strictConfig |-> {}, error |-> NoError]

\* DebugConfigurationResolver.resolveDebugConfiguration
ResolveDebugConfiguration(self, folder, docValid, descriptionExists, raw) ==
  LET wd == WorkingDirectoryOf(folder, docValid)
      hasDescription == HasDescription(folder, descriptionExists)
      c1 == BootstrapConfig(raw, hasDescription, docValid, wd)
      c2 == DefaultMode(c1, docValid)
      c3 == FillCapabilities(c2, self)
  IN  MatchDebugMode(c3, wd)

\* ------------------------------------------------ adapter descriptor factory
NoDescriptor == {}

\* fault variant: port and host are passed on without their defaults
CreateDescriptorNoDefaults(helpPanel, config) ==
  IF config.request = {"launch"} THEN
    [descriptor |->
       {[kind |-> "DebugAdapterInlineImplementation",
         helpPanel |-> {helpPanel},
         commandLineArgs |->
           IF config.commandLineArgs # {}
           THEN config.commandLineArgs ELSE {<< >>},
         port |-> {}, host |-> {}]},
     error |-> NoError]
  ELSE IF config.request = {"attach"} THEN
    [descriptor |->
       {[kind |-> "DebugAdapterServer",
         helpPanel |-> {}, commandLineArgs |-> {},
         port |-> config.port, host |-> config.host]},
     error |-> NoError]
  ELSE
    [descriptor |-> NoDescriptor,
     error |-> "Invalid entry \"request\" in debug config. Valid entries are \"launch\" and \"attach\""]

\* DebugAdapterDescriptorFactory.createDebugAdapterDescriptor
CreateDebugAdapterDescriptor(helpPanel, config) ==
  IF config.request = {"launch"} THEN
    [descriptor |->
       {[kind |-> "DebugAdapterInlineImplementation",
         helpPanel |-> {helpPanel},
         commandLineArgs |->
           IF config.commandLineArgs # {}
           THEN config.commandLineArgs ELSE {<< >>},
         port |-> {}, host |-> {}]},
     error |-> NoError]
  ELSE IF config.request = {"attach"} THEN
    [descriptor |->
       {[kind |-> "DebugAdapterServer",
         helpPanel |-> {}, commandLineArgs |-> {},
         port |-> OrNumber(config.port, {DefaultAttachPort}),
         host |-> OrString(config.host, {"localhost"})]},
     error |-> NoError]
  ELSE
    [descriptor |-> NoDescriptor,
     error |-> "Invalid entry \"request\" in debug config. Valid entries are \"launch\" and \"attach\""]

\* ------------------------------------------------------------- input spaces
Opt(S) == {Undefined} \cup {{v} : v \in S}

OptBoolean == Opt(BOOLEAN)

Ports == 0..MaxPort

\* ports the terminal handler can have negotiated (portPromise)
TerminalPorts == 1..MaxPort

ArgLists == UNION {[1..n -> {"--vanilla"}] : n \in 0..MaxArgs}

Requests == Opt({"launch", "attach", "restart"})

\* raw configurations whose mode and required string properties vary
ModeRaws ==
  { [EmptyConfig EXCEPT !.type = t, !.request = r, !.name = n,
       !.debugMode = m, !.workingDirectory = w, !.file = f, !.mainFunction = g] :
      t \in Opt({"R-Debugger"}), r \in Requests, n \in Opt({"my config"}),
      m \in Opt({"", "function", "file", "workspace"}),
      w \in Opt({"", "/proj"}), f \in Opt({"", "script.R"}),
      g \in Opt({"", "run"}) }

\* raw configurations whose boolean flags vary; the required string
\* properties are all given or all left out
FlagRaws ==
  { [EmptyConfig EXCEPT !.type = t, !.request = r, !.name = n,
       !.debugMode = m, !.workingDirectory = s[1], !.file = s[2],
       !.mainFunction = s[3], !.allowGlobalDebugging = a, !.overwriteHelp = h,
       !.supportsStdoutReading = c, !.supportsWriteToStdinEvent = c,
       !.supportsShowingPromptRequest = c] :
      t \in Opt({"R-Debugger"}), r \in Requests,
      n \in Opt({"my config"}), m \in {{"function"}, {"invalid"}},
      s \in {<<Undefined, Undefined, Undefined>>,
             <<{"/proj"}, {"script.R"}, {"run"}>>},
      a \in OptBoolean, h \in OptBoolean, c \in Opt({FALSE}) }

\* raw configurations whose socket properties vary
SocketRaws ==
  { [EmptyConfig EXCEPT !.type = {"R-Debugger"}, !.request = r,
       !.name = {"my config"}, !.customPort = p, !.customHost = h,
       !.useCustomSocket = u, !.supportsWriteToStdinEvent = w,
       !.overwriteLoadAll = l] :
      r \in Requests, p \in Opt(Ports), h \in Opt({"", "10.0.0.1"}),
      u \in OptBoolean, w \in OptBoolean, l \in Opt({TRUE}) }

\* raw configurations whose transport properties vary
TransportRaws ==
  { [EmptyConfig EXCEPT !.type = {"R-Debugger"}, !.request = r,
       !.name = {"my config"}, !.port = p, !.host = h, !.commandLineArgs = a] :
      r \in Requests, p \in Opt(Ports), h \in Opt({"", "10.0.0.1"}),
      a \in Opt(ArgLists) }

RawConfigs == ModeRaws \cup FlagRaws \cup SocketRaws \cup TransportRaws

\* --------------------------------------------------------------- the state
VARIABLES
  resolver,           \* the DebugConfigurationResolver registered by activate
  helpPanel,          \* whether the factory was given a help panel
  handler,            \* the handler called last
  folder,             \* last call: a workspace folder was passed
  docValid,           \* last call: the active editor shows a file document
  descriptionExists,  \* last call: fs.existsSync(<folder>/DESCRIPTION)
  raw,                \* the configuration passed to the resolver
  config,             \* the resolver's config object when it returned
  strictConfig,       \* the resolver's return value ({} is null)
  configs,            \* the return value of provideDebugConfigurations
  descriptor,         \* the return value of createDebugAdapterDescriptor
  error,              \* the error the last handler threw, or NoError
  resolves            \* how often the returned configuration was resolved again

vars == << resolver, helpPanel, handler, folder, docValid, descriptionExists,
           raw, config, strictConfig, configs, descriptor, error, resolves >>

\* activate(): rHelpPanel may be undefined, the port comes from the terminal
\* handler, the host is 'localhost'
Init ==
  /\ helpPanel \in BOOLEAN
  /\ \E port \in TerminalPorts :
       resolver = [customPort |-> port, customHost |-> "localhost",
                   supportsHelpViewer |-> helpPanel]
  /\ handler = "activate"
  /\ folder = FALSE /\ docValid = FALSE /\ descriptionExists = FALSE
  /\ raw = {} /\ config = {} /\ strictConfig = {}
  /\ configs = << >>
  /\ descriptor = NoDescriptor
  /\ error = NoError
  /\ resolves = 0

\* folder && fs.existsSync(...): the file system is only asked when a folder
\* was passed
DescriptionChecks(fo) == IF fo THEN BOOLEAN ELSE {FALSE}

\* no session is being started: the picker and a new session come first
Idle == handler \in {"activate", "provideInitial", "provideDynamic"}

\* a handler other than the resolver starts no session
NoSession ==
  /\ raw' = {} /\ config' = {} /\ strictConfig' = {}
  /\ descriptor' = NoDescriptor /\ error' = NoError /\ resolves' = 0

ProvideInitial ==
  /\ Idle
  /\ \E fo \in BOOLEAN :
       /\ folder' = fo /\ docValid' = FALSE /\ descriptionExists' = FALSE
  /\ handler' = "provideInitial"
  /\ configs' = InitialTemplates
  /\ NoSession
  /\ UNCHANGED << resolver, helpPanel >>

ProvideDynamic ==
  /\ Idle
  /\ \E fo \in BOOLEAN, dv \in BOOLEAN :
       \E de \in DescriptionChecks(fo) :
         /\ folder' = fo /\ docValid' = dv /\ descriptionExists' = de
         /\ configs' = DynamicTemplates(fo, dv, de)
  /\ handler' = "provideDynamic"
  /\ NoSession
  /\ UNCHANGED << resolver, helpPanel >>

\* the resolver's call on cfg: its locals and its return value
Resolved(fo, dv, de, cfg) ==
  LET r == ResolveDebugConfiguration(resolver, fo, dv, de, cfg) IN
  /\ folder' = fo /\ docValid' = dv /\ descriptionExists' = de
  /\ raw' = {cfg}
  /\ config' = {r.config}
  /\ strictConfig' = r.strictConfig
  /\ error' = r.error
  /\ handler' = "resolve"
  /\ configs' = << >>
  /\ descriptor' = NoDescriptor
  /\ UNCHANGED << resolver, helpPanel >>

\* a session is started with a raw configuration
Resolve ==
  /\ Idle
  /\ \E fo \in BOOLEAN, dv \in BOOLEAN, cfg \in RawConfigs :
       \E de \in DescriptionChecks(fo) : Resolved(fo, dv, de, cfg)
  /\ resolves' = 0

\* the configuration the resolver returned is resolved again
ResolveAgain ==
  /\ handler = "resolve"
  /\ strictConfig # {}
  /\ resolves < MaxResolves
  /\ \E fo \in BOOLEAN, dv \in BOOLEAN, cfg \in strictConfig :
       \E de \in DescriptionChecks(fo) : Resolved(fo, dv, de, cfg)
  /\ resolves' = resolves + 1

\* the session of the resolved configuration asks for its adapter
CreateDescriptor ==
  /\ handler = "resolve"
  /\ strictConfig # {}
  /\ \E cfg \in strictConfig :
       LET d == CreateDebugAdapterDescriptor(helpPanel, cfg) IN
       /\ descriptor' = d.descriptor
       /\ error' = d.error
  /\ handler' = "createDescriptor"
  /\ UNCHANGED << resolver, helpPanel, folder, docValid, descriptionExists,
                  raw, config, strictConfig, configs, resolves >>

Next ==
  \/ ProvideInitial
  \/ ProvideDynamic
  \/ Resolve
  \/ ResolveAgain
  \/ CreateDescriptor

Spec == Init /\ [][Next]_vars

\* ------------------------------------------------------------ the last call
Raw == CHOOSE c \in raw : TRUE
Config == CHOOSE c \in config : TRUE
Strict == CHOOSE c \in strictConfig : TRUE
Descriptor == CHOOSE d \in descriptor : TRUE

ResolverReturned == handler = "resolve" /\ raw # {}

StringFields ==
  { "type", "request", "name", "debugMode", "workingDirectory", "file",
    "mainFunction", "customHost", "host" }

BooleanFields ==
  { "includePackageScopes", "allowGlobalDebugging", "overwriteLoadAll",
    "overwriteHelp", "splitOverwrittenOutput", "supportsWriteToStdinEvent",
    "supportsShowingPromptRequest", "supportsStdoutReading", "useCustomSocket" }

LaunchFlags ==
  { "supportsStdoutReading", "supportsWriteToStdinEvent",
    "supportsShowingPromptRequest" }

NonEmpty(v) == v # {} /\ v # {""}

CarriesNone(c) == c.type = {} /\ c.request = {} /\ c.name = {}

\* the working directory the signals of the last call stand for
SignalDirectory ==
  CASE folder -> "${workspaceFolder}"
    [] ~folder /\ docValid -> "${fileDirname}"
    [] OTHER -> "."

\* ------------------------------------------------------------------- C1
\* C1: a raw configuration that carries none of type/request/name resolves
\* to a launch configuration chosen by priority: with a package description
\* a workspace launch with includePackageScopes and loadPackages = ["."],
\* else with an open file document a file launch of ${file}, else a
\* workspace launch; its workingDirectory follows the signals.
C1_Bootstrap ==
  (ResolverReturned /\ CarriesNone(Raw)) =>
    /\ strictConfig # {}
    /\ error = NoError
    /\ Strict.request = {"launch"}
    /\ Strict.workingDirectory = {SignalDirectory}
    /\ IF folder /\ descriptionExists
       THEN /\ Strict.debugMode = {"workspace"}
            /\ Strict.includePackageScopes = {TRUE}
            /\ Strict.loadPackages = {<< "." >>}
       ELSE IF docValid
       THEN /\ Strict.debugMode = {"file"}
            /\ Strict.file = {"${file}"}
       ELSE /\ Strict.debugMode = {"workspace"}
            /\ Strict.file = {}
            /\ Strict.includePackageScopes = {}

C1_Witness ==
  /\ ResolverReturned /\ CarriesNone(Raw)
  /\ folder /\ descriptionExists /\ docValid
  /\ strictConfig # {}
  /\ Strict.debugMode = {"workspace"}
  /\ Strict.includePackageScopes = {TRUE}

\* ------------------------------------------------------------------- C2
\* C2: for request "attach" the returned configuration has useCustomSocket
\* true unless the caller set it to false, and customPort and customHost
\* present: the caller's value when one was given (for the host: a non-empty
\* one), the resolver's own port and host otherwise.
C2_AttachSocket ==
  (ResolverReturned /\ Raw.request = {"attach"}) =>
    /\ strictConfig # {}
    /\ Strict.useCustomSocket =
         (IF Raw.useCustomSocket = {FALSE} THEN {FALSE} ELSE {TRUE})
    /\ Strict.customPort # {}
    /\ Strict.customPort =
         (IF Raw.customPort # {} THEN Raw.customPort ELSE {resolver.customPort})
    /\ NonEmpty(Strict.customHost)
    /\ Strict.customHost =
         (IF NonEmpty(Raw.customHost) THEN Raw.customHost
          ELSE {resolver.customHost})

C2_Witness ==
  /\ ResolverReturned /\ Raw.request = {"attach"}
  /\ Raw.useCustomSocket = {FALSE} /\ Raw.customPort = {}
  /\ Raw.customHost = {"10.0.0.1"}
  /\ strictConfig # {}
  /\ Strict.useCustomSocket = {FALSE}
  /\ Strict.customPort = {resolver.customPort}

\* ------------------------------------------------------------------- C3
\* C3: a launch configuration whose debugMode is a value other than
\* "function", "file" and "workspace" resolves to null, without an error.
C3_InvalidModeIsNull ==
  (/\ ResolverReturned /\ Raw.request = {"launch"}
   /\ NonEmpty(Raw.debugMode)
   /\ Raw.debugMode \notin {{"function"}, {"file"}, {"workspace"}}) =>
    /\ strictConfig = {}
    /\ error = NoError

C3_Witness ==
  /\ ResolverReturned /\ Raw.request = {"launch"}
  /\ Raw.debugMode = {"invalid"}
  /\ docValid /\ folder
  /\ strictConfig = {}

\* ------------------------------------------------------------------- C4
\* C4 as stated: the resolver throws exactly for the raw configurations
\* that give a request which is neither "launch" nor "attach".
C4_ResolverThrows ==
  ResolverReturned =>
    ((error # NoError) <=>
       (Raw.request # {} /\ Raw.request \notin {{"launch"}, {"attach"}}))

\* C4 as amended: the resolver never throws; a request that is neither
\* "launch" nor "attach" passes through it and is rejected by
\* createDebugAdapterDescriptor, which throws for exactly those requests
\* and then returns no descriptor.
C4_OnlyFactoryThrows ==
  /\ ResolverReturned => error = NoError
  /\ handler = "createDescriptor" =>
       /\ (error # NoError) <=> (Strict.request \notin {{"launch"}, {"attach"}})
       /\ (error # NoError) => descriptor = {}

C4_Witness ==
  /\ handler = "createDescriptor"
  /\ Raw.request = {"restart"}
  /\ Strict.request = {"restart"}
  /\ error # NoError
  /\ descriptor = {}

\* ------------------------------------------------------------------- C5
\* C5: createDebugAdapterDescriptor splits on request: "attach" gives a
\* server descriptor on the configured port and host, 18721 and "localhost"
\* when they are not set (absent, 0 or ""); "launch" gives an inline
\* adapter built with the commandLineArgs, the empty list when absent;
\* any other request throws and gives no descriptor.
C5_Transport ==
  handler = "createDescriptor" =>
    IF Strict.request = {"attach"} THEN
      /\ error = NoError /\ descriptor # {}
      /\ Descriptor.kind = "DebugAdapterServer"
      /\ Descriptor.port =
           (IF Strict.port = {} \/ Strict.port = {0} THEN {18721} ELSE Strict.port)
      /\ Descriptor.host =
           (IF NonEmpty(Strict.host) THEN Strict.host ELSE {"localhost"})
    ELSE IF Strict.request = {"launch"} THEN
      /\ error = NoError /\ descriptor # {}
      /\ Descriptor.kind = "DebugAdapterInlineImplementation"
      /\ Descriptor.helpPanel = {helpPanel}
      /\ Descriptor.commandLineArgs =
           (IF Strict.commandLineArgs = {} THEN {<< >>} ELSE Strict.commandLineArgs)
    ELSE
      /\ error # NoError
      /\ descriptor = {}

C5_Witness ==
  /\ handler = "createDescriptor"
  /\ Strict.request = {"attach"}
  /\ Strict.port = {} /\ Strict.host = {}
  /\ descriptor # {}
  /\ Descriptor.port = {18721} /\ Descriptor.host = {"localhost"}

\* ------------------------------------------------------------------- C6
\* C6: the dynamic provider returns the workspace template, then the file
\* and function templates iff a file document is open, then the package
\* template iff the folder holds a package description, then the attach
\* template.
TemplateKind(c) ==
  << c.request, c.debugMode, c.name, c.includePackageScopes >>

C6_DynamicOrder ==
  handler = "provideDynamic" =>
    /\ [i \in 1..Len(configs) |-> TemplateKind(configs[i])] =
         << << {"launch"}, {"workspace"}, {"Launch R-Workspace"}, {} >> >>
         \o (IF docValid
             THEN << << {"launch"}, {"file"}, {"Debug R-File"}, {} >>,
                     << {"launch"}, {"function"}, {"Debug R-Function"}, {} >> >>
             ELSE << >>)
         \o (IF folder /\ descriptionExists
             THEN << << {"launch"}, {"workspace"}, {"Debug R-Package"}, {TRUE} >> >>
             ELSE << >>)
         \o << << {"attach"}, {}, {"Attach to R process"}, {} >> >>
    /\ \A i \in 1..Len(configs) :
         configs[i].request = {"launch"} =>
           configs[i].workingDirectory = {SignalDirectory}

C6_Witness ==
  /\ handler = "provideDynamic"
  /\ ~docValid /\ ~(folder /\ descriptionExists)
  /\ Len(configs) = 2
  /\ configs[1].debugMode = {"workspace"}
  /\ configs[2].request = {"attach"}

\* ------------------------------------------------------------------- C7
\* request "launch", debugMode "function" and the three required strings
IsStrictFunctionLaunch(c) ==
  /\ c.request = {"launch"} /\ c.debugMode = {"function"}
  /\ NonEmpty(c.workingDirectory) /\ NonEmpty(c.file)
  /\ NonEmpty(c.mainFunction)

\* C7 as stated: resolving a strict function launch alters or adds no
\* property but the three launch capability flags and overwriteHelp.
C7_NothingAdded ==
  (ResolverReturned /\ IsStrictFunctionLaunch(Raw)) =>
    /\ strictConfig # {}
    /\ \A f \in Fields \ (LaunchFlags \cup {"overwriteHelp"}) :
         Strict[f] = Raw[f]

\* C7 as amended: resolving a strict function launch returns a function
\* launch in which no property differs from the input but the three launch
\* capability flags (true), overwriteHelp (gated by the help viewer) and
\* allowGlobalDebugging, which is set to true when the input leaves it
\* unset; resolving the result again returns it unchanged.
C7_Idempotent ==
  (ResolverReturned /\ IsStrictFunctionLaunch(Raw)) =>
    /\ strictConfig # {}
    /\ IsStrictFunctionLaunch(Strict)
    /\ \A f \in Fields \ (LaunchFlags \cup {"overwriteHelp", "allowGlobalDebugging"}) :
         Strict[f] = Raw[f]
    /\ Strict.allowGlobalDebugging =
         (IF Raw.allowGlobalDebugging = {} THEN {TRUE}
          ELSE Raw.allowGlobalDebugging)
    /\ \A f \in LaunchFlags : Strict[f] = {TRUE}
    /\ resolves > 0 => strictConfig = raw

C7_Witness ==
  /\ ResolverReturned /\ IsStrictFunctionLaunch(Raw)
  /\ resolves > 0
  /\ Raw.mainFunction = {"run"} /\ Raw.workingDirectory = {"/proj"}
  /\ Raw.allowGlobalDebugging = {FALSE}
  /\ ~folder /\ docValid
  /\ strictConfig = raw

\* ------------------------------------------------------------------- C8
\* C8: every configuration the resolver returns carries one of the four
\* tags and has the required properties of its tag present and non-empty.
C8_StrictInvariant ==
  (ResolverReturned /\ strictConfig # {}) =>
    \/ Strict.request = {"attach"}
    \/ /\ Strict.request = {"launch"}
       /\ \/ /\ Strict.debugMode = {"function"}
             /\ NonEmpty(Strict.workingDirectory) /\ NonEmpty(Strict.file)
             /\ NonEmpty(Strict.mainFunction)
          \/ /\ Strict.debugMode = {"file"}
             /\ NonEmpty(Strict.workingDirectory) /\ NonEmpty(Strict.file)
          \/ /\ Strict.debugMode = {"workspace"}
             /\ NonEmpty(Strict.workingDirectory)

\* ------------------------------------------------------------------- C9
\* the caller gave the property a non-empty string or a boolean
ExplicitlySet(c, f) ==
  \/ f \in StringFields /\ NonEmpty(c[f])
  \/ f \in BooleanFields /\ c[f] # {}

\* the properties the resolver assigns whatever the caller gave
Forced(request) ==
  CASE request = {"launch"} -> LaunchFlags \cup {"overwriteHelp"}
    [] request = {"attach"} -> {"overwriteLoadAll"}
    [] OTHER -> {}

\* C9 as stated: whatever the raw configuration, also one without type,
\* request and name, every property the caller set explicitly keeps its
\* value in the resolved configuration, the forced properties excepted.
C9_NeverOverwrites ==
  (ResolverReturned /\ strictConfig # {}) =>
    \A f \in (StringFields \cup BooleanFields) \ Forced(Strict.request) :
      ExplicitlySet(Raw, f) => Strict[f] = Raw[f]

\* C9 as amended: for a raw configuration that carries at least one of
\* type, request and name, every property the caller set explicitly keeps
\* its value, the forced properties excepted; a raw configuration that
\* carries none of the three is replaced as a whole.
C9_KeepsExplicit ==
  (ResolverReturned /\ ~CarriesNone(Raw)) =>
    /\ \A f \in (StringFields \cup BooleanFields) \ Forced(Raw.request) :
         ExplicitlySet(Raw, f) => Config[f] = Raw[f]
    /\ strictConfig # {} => strictConfig = config

C9_Witness ==
  /\ ResolverReturned /\ ~CarriesNone(Raw)
  /\ Raw.request = {"launch"}
  /\ Raw.allowGlobalDebugging = {FALSE}
  /\ Raw.mainFunction = {"run"}
  /\ Raw.debugMode = {"function"}
  /\ strictConfig # {}
  /\ Strict.allowGlobalDebugging = {FALSE}
  /\ Strict.mainFunction = {"run"}

\* ------------------------------------------------------------------ C10
\* C10: for request "launch" the three capability flags are true whatever
\* the caller gave, and overwriteHelp is true exactly when the caller left
\* it unset or set it to true and a help panel is available.
C10_LaunchCapabilities ==
  (ResolverReturned /\ Raw.request = {"launch"}) =>
    /\ \A f \in LaunchFlags : Config[f] = {TRUE}
    /\ Config.overwriteHelp = {Raw.overwriteHelp # {FALSE} /\ helpPanel}
    /\ strictConfig # {} => strictConfig = config

C10_Witness ==
  /\ ResolverReturned /\ Raw.request = {"launch"}
  /\ Raw.supportsStdoutReading = {FALSE}
  /\ Raw.overwriteHelp = {TRUE}
  /\ ~helpPanel
  /\ strictConfig # {}
  /\ Strict.supportsStdoutReading = {TRUE}
  /\ Strict.overwriteHelp = {FALSE}

====
